---- MODULE Spec2Model ----
(***************************************************************************)
(* State-machine model of the SASA CAM persona pipeline:                   *)
(*   - App (src/App.tsx): identity library, active selection, camera       *)
(*     status, upload / refinement flow;                                   *)
(*   - CameraFeed (src/unnamed/part_001, lines 55-287): capture stream,    *)
(*     target pre-processing, the face swap loop;                          *)
(*   - geminiService (src/unnamed/part_001, lines 290-386).                *)
(*                                                                         *)
(* React semantics used by the model.  An event handler (a click, a timer  *)
(* callback, the continuation of an awaited promise) updates state in one  *)
(* batch.  The component then re-renders and every useEffect whose         *)
(* dependency array differs from the one of its previous run executes its  *)
(* previous cleanup and then its body, reading the values of that render   *)
(* (its closure); the state updates the effects request are again applied  *)
(* in one batch.  Each such batch is one step of the model: a handler      *)
(* action, followed by RunEffects steps until no dependency has changed.   *)
(* Handlers are taken only when no effect run is pending, so a timer       *)
(* callback always sees the closure of the latest render.                  *)
(***************************************************************************)
EXTENDS Integers, FiniteSets, Sequences, TLC

(***************************************************************************)
(* Bounds of the model.                                                    *)
(***************************************************************************)
\* file uploads over a run (each one creates an identity with a fresh id)
MaxUploads == 1
\* distinct files the user can pick
MaxFiles == 1
\* capture streams that can exist together (live, held or being acquired)
MaxStreams == 2
\* result frames that can exist together, and swap calls that can be outstanding
MaxFrames == 2
\* image loads (urlToBase64 of a remote URL) in flight per image
MaxLoads == 1

VARIABLES
  identities,        \* App: useState<Identity[]>
  activeIdentityId,  \* App: useState<string | null>   (0 = null)
  cameraStatus,      \* App: useState<CameraStatus>
  isUploading,       \* App: useState(false)
  upload,            \* the upload in progress: FileReader / refineIdentity pending
  nextId,            \* upload ids handed out so far (Date.now() is fresh each time)
  stream,            \* CameraFeed: useState<MediaStream | null>   (0 = null)
  swappedFrame,      \* CameraFeed: useState<string | null>, the anchor
  isProcessing,      \* CameraFeed: useState(false), the Busy flag
  identityBase64,    \* CameraFeed: useState<string | null>, the target payload
  depUrl,            \* activeIdentityUrl at the last run of the pre-process effect
  depStatus,         \* status at the last run of the camera effect
  depLoop,           \* dependencies at the last run of the face swap loop effect
  cleanupStream,     \* `stream` captured by the cleanup of the last camera effect
  interval,          \* the setInterval handle of the loop effect is armed
  tracks,            \* MediaStreams whose tracks are live (capture device held)
  acquiring,         \* getUserMedia calls not yet settled
  srcObject,         \* video.srcObject (0 = none, or no video element)
  loading,           \* Image loads of urlToBase64 not yet settled, per image
  inflight,          \* performFaceSwap calls not yet settled
  lastEvent          \* the handler whose effects are still to run ("idle" if none)

vars == <<identities, activeIdentityId, cameraStatus, isUploading, upload, nextId,
          stream, swappedFrame, isProcessing, identityBase64, depUrl, depStatus,
          depLoop, cleanupStream, interval, tracks, acquiring, srcObject, loading,
          inflight, lastEvent>>

appVars == <<identities, activeIdentityId, cameraStatus, isUploading, upload, nextId>>
streamVars == <<stream, cleanupStream, tracks, acquiring, srcObject>>
depVars == <<depUrl, depStatus, depLoop>>

(***************************************************************************)
(* Values.                                                                 *)
(***************************************************************************)
INACTIVE == "INACTIVE"
LOADING == "LOADING"
ACTIVE == "ACTIVE"
SWAPPING == "SWAPPING"
CameraStatus == {INACTIVE, LOADING, ACTIVE, SWAPPING}

\* An image resource or payload.  kind "remote" is an https URL, kind "data" a
\* data: URL; img names the picture, enc how the bytes were produced.
NoImage == [kind |-> "none", img |-> 0, enc |-> "none"]
RemoteUrl(i) == [kind |-> "remote", img |-> i, enc |-> "orig"]
DataUrl(i) == [kind |-> "data", img |-> i, enc |-> "orig"]
JpegOf(url) == [kind |-> "data", img |-> url.img, enc |-> "jpeg"]

\* A swapped frame returned by the service: id tells successive results apart,
\* target is the payload of the request that produced it.
NoFrame == [id |-> 0, target |-> NoImage]

INITIAL_IDENTITIES ==
  << [id |-> 1, name |-> 1, imageUrl |-> RemoteUrl(1), embeddingStatus |-> "ready"],
     [id |-> 2, name |-> 2, imageUrl |-> RemoteUrl(2), embeddingStatus |-> "ready"] >>

RemoteImgs == {1, 2}
Files == 1..MaxFiles
StreamIds == 1..MaxStreams
FrameIds == 1..MaxFrames
NoUpload == [phase |-> "idle", file |-> 0, id |-> 0]

(***************************************************************************)
(* Pure helpers.                                                           *)
(***************************************************************************)
RECURSIVE Filter(_, _)
Filter(s, id) ==
  IF s = <<>> THEN <<>>
  ELSE IF Head(s).id # id THEN <<Head(s)>> \o Filter(Tail(s), id)
       ELSE Filter(Tail(s), id)

Ids(s) == {s[k].id : k \in 1..Len(s)}

\* identities.find(i => i.id === activeIdentityId)?.imageUrl
ActiveIdentityUrl(ids, active) ==
  IF \E k \in 1..Len(ids) : ids[k].id = active
  THEN ids[CHOOSE k \in 1..Len(ids) :
             ids[k].id = active /\ \A j \in 1..(k - 1) : ids[j].id # active].imageUrl
  ELSE NoImage

\* url.startsWith('data:')
IsInline(url) == url.kind = "data"

\* What urlToBase64 can resolve to: the url itself when it is inline; otherwise
\* the canvas re-encoding (onload with a 2d context) or the url itself (onload
\* without a context, onerror).
UrlToBase64(url) == IF IsInline(url) THEN {url} ELSE {JpegOf(url), url}

(***************************************************************************)
(* Rendering: the props and dependency arrays of the current state.        *)
(***************************************************************************)
\* App.tsx line 96 and the activeIdentityUrl prop of line 209
Url == ActiveIdentityUrl(identities, activeIdentityId)

\* dependency array of the face swap loop effect
LoopDeps == <<cameraStatus, identityBase64, swappedFrame, isProcessing>>

\* some effect has a dependency that changed since its last run
Dirty == Url # depUrl \/ cameraStatus # depStatus \/ LoopDeps # depLoop

\* the handler recorded in lastEvent while its effects are still to run
Event(e) == lastEvent' = IF Dirty' THEN e ELSE "idle"

\* a persona button disabled by the status alone
SwapDisabledByStatus == cameraStatus = INACTIVE

\* the persona button's disabled attribute
SwapDisabled == cameraStatus = INACTIVE \/ activeIdentityId = 0

(***************************************************************************)
(* Capture streams.                                                        *)
(***************************************************************************)
StreamsInUse == tracks \cup ({stream, cleanupStream, srcObject} \ {0})

\* a further getUserMedia call fits the model's bound
CanAcquire == Cardinality(StreamsInUse) + acquiring < MaxStreams

FreshStream == CHOOSE s \in StreamIds \ StreamsInUse :
                 \A t \in StreamIds \ StreamsInUse : s <= t

\* the <video> element exists only while status !== INACTIVE
VideoMounted(st) == st # INACTIVE

\* canvas.toDataURL of the current video image
Snapshot(src, trk) == IF src # 0 /\ src \in trk THEN "frame" ELSE "blank"

(***************************************************************************)
(* processFrame.  ctx is canvas.getContext('2d'): without a context the    *)
(* call sets and clears Busy in one batch and sends nothing.               *)
(***************************************************************************)
FramesInUse == ({swappedFrame.id}
                \cup {inflight[k].anchor.id : k \in 1..Len(inflight)}) \ {0}

FreshFrame == CHOOSE f \in FrameIds \ FramesInUse :
                \A g \in FrameIds \ FramesInUse : f <= g

\* processFrame without the Busy test
ProcessFrameGuardNoBusy(st, target, busy) == st = SWAPPING /\ target # NoImage

\* the early return of processFrame: swapping, a target, not busy
ProcessFrameGuard(st, target, busy) == st = SWAPPING /\ target # NoImage /\ ~busy

\* performFaceSwap called without the previous result
AnchorArgNone(frame) == NoFrame

\* the third argument of performFaceSwap: swappedFrame || undefined
AnchorArg(frame) == frame

\* x.includes(',') ? x.split(',')[1] : x, for each kind of argument: a data: URL
\* loses its envelope and keeps its base64 payload, any other string is sent as
\* it is.  frame names the swapped frame a payload was taken from (0: none).
CleanSource(shot) == [kind |-> "base64", img |-> 0, enc |-> shot, frame |-> 0]
CleanImage(x) ==
  [kind |-> IF IsInline(x) THEN "base64" ELSE x.kind, img |-> x.img, enc |-> x.enc,
   frame |-> 0]
CleanFrame(f) == [kind |-> "base64", img |-> f.target.img, enc |-> "png", frame |-> f.id]

NoData == [kind |-> "none", img |-> 0, enc |-> "none", frame |-> 0]

\* { inlineData: { data, mimeType: 'image/jpeg' } }
InlinePart(data) ==
  [type |-> "inlineData", data |-> data, mimeType |-> "image/jpeg", reference |-> FALSE]

\* { text: ... }; reference: the two lines about Image 3, the consistency
\* reference, are in the text
TextPart(withPrevious) ==
  [type |-> "text", data |-> NoData, mimeType |-> "none", reference |-> withPrevious]

\* performFaceSwap with the anchor part pushed whatever previousResultBase64 is
PerformFaceSwapPartsAlways(shot, target, previous) ==
  << InlinePart(CleanSource(shot)), InlinePart(CleanImage(target)),
     InlinePart(CleanFrame(previous)), TextPart(previous # NoFrame) >>

\* the parts performFaceSwap sends.  cleanPrevious is truthy exactly when a
\* previous result was passed: a result is 'data:image/png;base64,' followed by
\* the image bytes of the response, which are not empty.
PerformFaceSwapParts(shot, target, previous) ==
  << InlinePart(CleanSource(shot)), InlinePart(CleanImage(target)) >>
  \o (IF previous # NoFrame THEN << InlinePart(CleanFrame(previous)) >> ELSE << >>)
  \o << TextPart(previous # NoFrame) >>

\* the performFaceSwap call of processFrame: its arguments (the source frame is
\* the snapshot of the video at the time of the call) and the parts sent; stale
\* records that the user has since left the session the request was sent in
NewRequest(trk) ==
  [source |-> Snapshot(srcObject, trk),
   target |-> identityBase64,
   anchor |-> AnchorArg(swappedFrame),
   parts |-> PerformFaceSwapParts(Snapshot(srcObject, trk), identityBase64,
                                  AnchorArg(swappedFrame)),
   stale |-> FALSE]

\* the frame performFaceSwap returns for a request the service answered with an
\* image: a new picture, made for the request's target
ResultOf(r) == [id |-> FreshFrame, target |-> r.target]

\* setSwappedFrame(result) without the test of result
AfterSwapAlways(frame, result) == result

\* if (result) setSwappedFrame(result)
AfterSwap(frame, result) == IF result # NoFrame THEN result ELSE frame

\* requests outstanding when the user leaves the session they were sent in
MarkStale(reqs) == [k \in 1..Len(reqs) |-> [reqs[k] EXCEPT !.stale = TRUE]]

\* the queue of outstanding calls without its k-th element
Remove(reqs, k) == SubSeq(reqs, 1, k - 1) \o SubSeq(reqs, k + 1, Len(reqs))

(***************************************************************************)
(* Initial state: App and CameraFeed mounted, the mount-time effects run.  *)
(***************************************************************************)
Init ==
  /\ identities = INITIAL_IDENTITIES
  /\ activeIdentityId = 0
  /\ cameraStatus = INACTIVE
  /\ isUploading = FALSE
  /\ upload = NoUpload
  /\ nextId = 3
  /\ stream = 0
  /\ swappedFrame = NoFrame
  /\ isProcessing = FALSE
  /\ identityBase64 = NoImage
  /\ depUrl = NoImage
  /\ depStatus = INACTIVE
  /\ depLoop = <<INACTIVE, NoImage, NoFrame, FALSE>>
  /\ cleanupStream = 0
  /\ interval = FALSE
  /\ tracks = {}
  /\ acquiring = 0
  /\ srcObject = 0
  /\ loading = [i \in RemoteImgs |-> 0]
  /\ inflight = <<>>
  /\ lastEvent = "idle"

(***************************************************************************)
(* The three effects of CameraFeed, run for one committed render.          *)
(***************************************************************************)
\* identity pre-process effect, else branch: the anchor after it ran
PreprocessAnchor(url, frame) == IF url = NoImage THEN NoFrame ELSE frame

\* camera effect, else branch: the anchor after it ran
CameraAnchor(st, frame) == IF st = INACTIVE THEN NoFrame ELSE frame

\* a loop effect without its else branch
LoopAnchorKeep(st, target, frame) == frame

\* face swap loop effect, else branch: the anchor after it ran
LoopAnchor(st, target, frame) ==
  IF st = SWAPPING /\ target # NoImage THEN frame ELSE NoFrame

\* a loop effect whose cleanup does not clear the interval
LoopIntervalNoCleanup(st, target, armed) ==
  armed \/ (st = SWAPPING /\ target # NoImage)

\* face swap loop effect: the interval after it ran.  The cleanup of the
\* previous run clears the old handle, the if branch arms a new one.
LoopInterval(st, target, armed) == st = SWAPPING /\ target # NoImage

\* tracks left live by the camera effect: the previous cleanup stops the stream
\* it captured, the else branch stops the stream of this render
CameraTracks(st, trk, captured, cur) ==
  IF st = INACTIVE THEN (trk \ {captured}) \ {cur} ELSE trk \ {captured}

RunEffects ==
  /\ Dirty
  /\ \E ctx \in BOOLEAN :
     LET run1 == Url # depUrl
         run2 == cameraStatus # depStatus
         run3 == LoopDeps # depLoop
         trk == IF run2 THEN CameraTracks(cameraStatus, tracks, cleanupStream, stream)
                ELSE tracks
         swapOn == cameraStatus = SWAPPING /\ identityBase64 # NoImage
         fire == /\ run3
                 /\ swapOn
                 /\ ProcessFrameGuard(cameraStatus, identityBase64, isProcessing)
                 /\ VideoMounted(cameraStatus)
                 /\ ctx
         a1 == IF run1 THEN PreprocessAnchor(Url, swappedFrame) ELSE swappedFrame
         a2 == IF run2 THEN CameraAnchor(cameraStatus, a1) ELSE a1
         a3 == IF run3 THEN LoopAnchor(cameraStatus, identityBase64, a2) ELSE a2
     IN  /\ fire => Len(inflight) < MaxFrames
         \* useEffect(..., [activeIdentityUrl])
         /\ identityBase64' = IF ~run1 THEN identityBase64
                              ELSE IF Url = NoImage THEN NoImage
                              ELSE IF IsInline(Url) THEN Url
                              ELSE identityBase64
         /\ loading' = IF run1 /\ Url # NoImage /\ ~IsInline(Url)
                       THEN [loading EXCEPT ![Url.img] = @ + 1]
                       ELSE loading
         /\ depUrl' = Url
         \* useEffect(..., [status])
         /\ tracks' = trk
         /\ acquiring' = IF run2 /\ cameraStatus # INACTIVE THEN acquiring + 1
                         ELSE acquiring
         /\ stream' = IF run2 /\ cameraStatus = INACTIVE THEN 0 ELSE stream
         /\ cleanupStream' = IF run2 THEN stream ELSE cleanupStream
         /\ depStatus' = cameraStatus
         \* useEffect(..., [status, identityBase64, swappedFrame, isProcessing])
         /\ interval' = IF run3 THEN LoopInterval(cameraStatus, identityBase64, interval)
                        ELSE interval
         /\ inflight' = IF fire THEN Append(inflight, NewRequest(trk)) ELSE inflight
         /\ isProcessing' = IF fire THEN TRUE ELSE isProcessing
         /\ depLoop' = IF run3 THEN LoopDeps ELSE depLoop
         /\ swappedFrame' = a3
  /\ UNCHANGED <<appVars, srcObject>>
  /\ Event(lastEvent)

(***************************************************************************)
(* App handlers.                                                           *)
(***************************************************************************)
feedVars == <<swappedFrame, isProcessing, identityBase64, interval, loading>>

\* toggleCamera (the power button)
ToggleCamera ==
  /\ ~Dirty
  /\ cameraStatus = INACTIVE => CanAcquire
  /\ cameraStatus' = IF cameraStatus = INACTIVE THEN ACTIVE ELSE INACTIVE
  /\ srcObject' = IF cameraStatus = INACTIVE THEN srcObject ELSE 0
  /\ inflight' = IF cameraStatus = INACTIVE THEN inflight ELSE MarkStale(inflight)
  /\ UNCHANGED <<identities, activeIdentityId, isUploading, upload, nextId>>
  /\ UNCHANGED <<stream, cleanupStream, tracks, acquiring, feedVars, depVars>>
  /\ Event("user")

\* toggleSwap (the persona button, clickable unless disabled)
ToggleSwap ==
  /\ ~Dirty
  /\ ~SwapDisabled
  /\ cameraStatus # INACTIVE
  /\ CanAcquire
  /\ cameraStatus' = IF cameraStatus = SWAPPING THEN ACTIVE ELSE SWAPPING
  /\ inflight' = IF cameraStatus = SWAPPING THEN MarkStale(inflight) ELSE inflight
  /\ UNCHANGED <<identities, activeIdentityId, isUploading, upload, nextId>>
  /\ UNCHANGED <<streamVars, feedVars, depVars>>
  /\ Event("user")

\* handleIdentitySelect: the selection after clicking the card of id
SelectResult(id, active) == IF id = active THEN 0 ELSE id

HandleIdentitySelect(id) ==
  /\ ~Dirty
  /\ id \in Ids(identities)
  /\ LET new == SelectResult(id, activeIdentityId)
         url == ActiveIdentityUrl(identities, new)
     IN  /\ (url.kind = "remote" /\ url # Url) => loading[url.img] < MaxLoads
         /\ activeIdentityId' = new
  /\ inflight' = IF activeIdentityId # 0 THEN MarkStale(inflight) ELSE inflight
  /\ UNCHANGED <<identities, cameraStatus, isUploading, upload, nextId>>
  /\ UNCHANGED <<streamVars, feedVars, depVars>>
  /\ Event("user")

\* deleteIdentity without its second statement
DeleteSelectionKeep(id, active) == active

\* deleteIdentity: the selection after deleting id
DeleteSelection(id, active) == IF active = id THEN 0 ELSE active

DeleteIdentity(id) ==
  /\ ~Dirty
  /\ id \in Ids(identities)
  /\ identities' = Filter(identities, id)
  /\ activeIdentityId' = DeleteSelection(id, activeIdentityId)
  /\ inflight' = IF activeIdentityId = id THEN MarkStale(inflight) ELSE inflight
  /\ UNCHANGED <<cameraStatus, isUploading, upload, nextId>>
  /\ UNCHANGED <<streamVars, feedVars, depVars>>
  /\ Event("user")

\* handleFileUpload up to reader.readAsDataURL (the input is disabled while uploading)
HandleFileUpload(f) ==
  /\ ~Dirty
  /\ ~isUploading
  /\ nextId < 3 + MaxUploads
  /\ isUploading' = TRUE
  /\ upload' = [phase |-> "reading", file |-> f, id |-> 0]
  /\ UNCHANGED <<identities, activeIdentityId, cameraStatus, nextId>>
  /\ UNCHANGED <<streamVars, feedVars, depVars, inflight>>
  /\ Event("user")

\* reader.onload up to the await of refineIdentity
ReaderOnload ==
  /\ ~Dirty
  /\ upload.phase = "reading"
  /\ identities' = Append(identities,
                     [id |-> nextId, name |-> 2 + upload.file,
                      imageUrl |-> DataUrl(2 + upload.file),
                      embeddingStatus |-> "processing"])
  /\ upload' = [upload EXCEPT !.phase = "refining", !.id = nextId]
  /\ nextId' = nextId + 1
  /\ UNCHANGED <<activeIdentityId, cameraStatus, isUploading>>
  /\ UNCHANGED <<streamVars, feedVars, depVars, inflight>>
  /\ Event("async")

\* the embeddingStatus handleFileUpload stores once refineIdentity has returned
\* (text on success, null on failure: the value is not read)
RefinedStatus(ok) == "ready"

\* a status update that puts back an entry the list no longer holds
MarkStatusUpsert(ids, id, st) ==
  IF id \in Ids(ids)
    THEN [k \in 1..Len(ids) |->
            IF ids[k].id = id THEN [ids[k] EXCEPT !.embeddingStatus = st] ELSE ids[k]]
    ELSE Append(ids, [id |-> id, name |-> 0, imageUrl |-> DataUrl(0),
                      embeddingStatus |-> st])

\* a status update that builds the entry without the spread of the old one
MarkStatusNoSpread(ids, id, st) ==
  [k \in 1..Len(ids) |->
     IF ids[k].id = id
       THEN [id |-> id, name |-> 0, imageUrl |-> NoImage, embeddingStatus |-> st]
       ELSE ids[k]]

\* prev.map(idty => idty.id === newIdentity.id ? {...idty, embeddingStatus} : idty)
MarkStatus(ids, id, st) ==
  [k \in 1..Len(ids) |->
     IF ids[k].id = id THEN [ids[k] EXCEPT !.embeddingStatus = st] ELSE ids[k]]

\* the continuation of handleFileUpload after refineIdentity settled
RefineDone(ok) ==
  /\ ~Dirty
  /\ upload.phase = "refining"
  /\ identities' = MarkStatus(identities, upload.id, RefinedStatus(ok))
  /\ isUploading' = FALSE
  /\ upload' = NoUpload
  /\ UNCHANGED <<activeIdentityId, cameraStatus, nextId>>
  /\ UNCHANGED <<streamVars, feedVars, depVars, inflight>>
  /\ Event("async")

RefineSuccess == RefineDone(TRUE)
RefineFailure == RefineDone(FALSE)

(***************************************************************************)
(* CameraFeed: completions of getUserMedia and of the identity image load. *)
(***************************************************************************)
\* setupCamera after getUserMedia resolved: setStream(s), video.srcObject = s
AcquireSuccess ==
  /\ ~Dirty
  /\ acquiring > 0
  /\ acquiring' = acquiring - 1
  /\ stream' = FreshStream
  /\ tracks' = tracks \cup {FreshStream}
  /\ srcObject' = IF VideoMounted(cameraStatus) THEN FreshStream ELSE srcObject
  /\ UNCHANGED <<appVars, cleanupStream, feedVars, depVars, inflight>>
  /\ Event("async")

\* setupCamera after getUserMedia rejected: the catch logs and returns
AcquireFailure ==
  /\ ~Dirty
  /\ acquiring > 0
  /\ acquiring' = acquiring - 1
  /\ UNCHANGED <<appVars, stream, cleanupStream, tracks, srcObject>>
  /\ UNCHANGED <<feedVars, depVars, inflight>>
  /\ Event("async")

\* urlToBase64(url).then(setIdentityBase64) for a remote url whose load settled
ImageLoaded(i) ==
  /\ ~Dirty
  /\ loading[i] > 0
  /\ loading' = [loading EXCEPT ![i] = @ - 1]
  /\ \E payload \in UrlToBase64(RemoteUrl(i)) : identityBase64' = payload
  /\ UNCHANGED <<appVars, streamVars, depVars, inflight>>
  /\ UNCHANGED <<swappedFrame, isProcessing, interval>>
  /\ Event("load")

(***************************************************************************)
(* CameraFeed: the face swap loop.                                         *)
(***************************************************************************)
\* a firing of window.setInterval(processFrame, 6000)
Tick ==
  /\ ~Dirty
  /\ interval
  /\ \E ctx \in BOOLEAN :
     LET fire == /\ ProcessFrameGuard(cameraStatus, identityBase64, isProcessing)
                 /\ VideoMounted(cameraStatus)
                 /\ ctx
     IN  /\ fire => Len(inflight) < MaxFrames
         /\ inflight' = IF fire THEN Append(inflight, NewRequest(tracks)) ELSE inflight
         /\ isProcessing' = IF fire THEN TRUE ELSE isProcessing
  /\ UNCHANGED <<appVars, streamVars, depVars>>
  /\ UNCHANGED <<swappedFrame, identityBase64, interval, loading>>
  /\ Event("tick")

\* Busy cleared only next to setSwappedFrame, inside if (result)
BusyAfterOnSuccess(result) == result = NoFrame

\* finally { setIsProcessing(false) }: Busy after the call settled
BusyAfter(result) == FALSE

\* processFrame after performFaceSwap returned `result`; finally clears Busy
SwapDone(k, result) ==
  /\ ~Dirty
  /\ k \in 1..Len(inflight)
  /\ FrameIds \ FramesInUse # {}
  /\ inflight' = Remove(inflight, k)
  /\ swappedFrame' = AfterSwap(swappedFrame, result)
  /\ isProcessing' = BusyAfter(result)
  /\ UNCHANGED <<appVars, streamVars, depVars>>
  /\ UNCHANGED <<identityBase64, interval, loading>>

\* the service answered with an image part
SwapSuccess(k) == SwapDone(k, ResultOf(inflight[k])) /\ Event("swapOk")

\* the service failed, threw, or answered without an image: performFaceSwap
\* returns null
SwapFailure(k) == SwapDone(k, NoFrame) /\ Event("swapFail")

(***************************************************************************)
(* Specification.                                                          *)
(***************************************************************************)
Next ==
  \/ RunEffects
  \/ ToggleCamera
  \/ ToggleSwap
  \/ \E id \in Ids(identities) : HandleIdentitySelect(id)
  \/ \E id \in Ids(identities) : DeleteIdentity(id)
  \/ \E f \in Files : HandleFileUpload(f)
  \/ ReaderOnload
  \/ RefineSuccess
  \/ RefineFailure
  \/ AcquireSuccess
  \/ AcquireFailure
  \/ \E i \in RemoteImgs : ImageLoaded(i)
  \/ Tick
  \/ \E k \in 1..Len(inflight) : SwapSuccess(k)
  \/ \E k \in 1..Len(inflight) : SwapFailure(k)

Spec == Init /\ [][Next]_vars

\* The swap loop over the built-in library.  processFrame reads neither the
\* stream nor the upload state, so the capture device is left out (every
\* getUserMedia call is rejected) and no file is uploaded.
NextLoop ==
  \/ RunEffects
  \/ ToggleCamera
  \/ ToggleSwap
  \/ \E id \in Ids(identities) : HandleIdentitySelect(id)
  \/ \E id \in Ids(identities) : DeleteIdentity(id)
  \/ AcquireFailure
  \/ \E i \in RemoteImgs : ImageLoaded(i)
  \/ Tick
  \/ \E k \in 1..Len(inflight) : SwapSuccess(k)
  \/ \E k \in 1..Len(inflight) : SwapFailure(k)

SpecLoop == Init /\ [][NextLoop]_vars

\* request completions of either outcome
SwapSettles == \E k \in 1..Len(inflight) : SwapSuccess(k) \/ SwapFailure(k)

\* a tick of the interval that sends a request
TickDispatch == Tick /\ Len(inflight') > Len(inflight)

\* The swap loop with a library that keeps its two entries
NextRetry ==
  \/ RunEffects
  \/ ToggleCamera
  \/ ToggleSwap
  \/ \E id \in Ids(identities) : HandleIdentitySelect(id)
  \/ AcquireFailure
  \/ \E i \in RemoteImgs : ImageLoaded(i)
  \/ Tick
  \/ \E k \in 1..Len(inflight) : SwapSuccess(k)
  \/ \E k \in 1..Len(inflight) : SwapFailure(k)

\* The swap loop with its scheduling: React runs pending effects, every
\* performFaceSwap call settles (it catches its errors and returns), and the
\* interval keeps firing every 6 s while armed, so a tick on which the frame
\* can be drawn comes again and again.
Fairness ==
  /\ WF_vars(RunEffects)
  /\ WF_vars(SwapSettles)
  /\ SF_vars(TickDispatch)

SpecRetry == Init /\ [][NextRetry]_vars /\ Fairness

\* The identity library with the camera off: uploads, refinement, selection,
\* deletion and the target pre-processing they trigger.
NextStore ==
  \/ RunEffects
  \/ \E id \in Ids(identities) : HandleIdentitySelect(id)
  \/ \E id \in Ids(identities) : DeleteIdentity(id)
  \/ \E f \in Files : HandleFileUpload(f)
  \/ ReaderOnload
  \/ RefineSuccess
  \/ RefineFailure
  \/ \E i \in RemoteImgs : ImageLoaded(i)

SpecStore == Init /\ [][NextStore]_vars

\* The capture device: the two toggles, the selection that enables the persona
\* button, and the completions of getUserMedia.  No identity image finishes
\* loading, so no swap request is sent.
NextCapture ==
  \/ RunEffects
  \/ ToggleCamera
  \/ ToggleSwap
  \/ \E id \in Ids(identities) : HandleIdentitySelect(id)
  \/ AcquireSuccess
  \/ AcquireFailure

SpecCapture == Init /\ [][NextCapture]_vars

(***************************************************************************)
(* Properties.                                                             *)
(***************************************************************************)
Last(q) == q[Len(q)]

\* a step that sends a swap request
Dispatches == Len(inflight') > Len(inflight)

\* C1 (single-flight): at most one swap request is outstanding after every
\* step, and while a request is outstanding no step (timer tick, effect re-run,
\* toggle, response) sends another one: the trigger is dropped.
C1_SingleFlight ==
  [][Len(inflight') <= 1 /\ (Len(inflight) > 0 => ~Dispatches)]_vars

\* a second or later request is outstanding while the timer is armed and the
\* effects have run: ticks arrive during Busy
C1_Witness ==
  /\ ~Dirty
  /\ interval
  /\ isProcessing
  /\ Len(inflight) = 1
  /\ swappedFrame # NoFrame

\* C2 (discard after cancellation): when a request that was cancelled while
\* outstanding completes with an image, that image does not become the anchor
\* of a swapping session, where it would be kept and shown.
C2_StaleResultDiscarded ==
  [][\A k \in 1..Len(inflight) :
       (inflight[k].stale /\ SwapSuccess(k))
         => ~(/\ swappedFrame' # NoFrame
              /\ cameraStatus' = SWAPPING
              /\ identityBase64' # NoImage)]_vars

\* C3 (no stale anchor for a new target): every outstanding request that
\* carries an anchor carries one that was produced for the picture of its own
\* target.
C3_AnchorMatchesTarget ==
  \A k \in 1..Len(inflight) :
    inflight[k].anchor # NoFrame
      => inflight[k].anchor.target.img = inflight[k].target.img

\* C4 (timer-paced retry): the effects that run after a swap request completed
\* (success or failure) send no request; only a timer tick does.
C4_NoDispatchOnCompletion ==
  [][(lastEvent \in {"swapOk", "swapFail"}) => ~Dispatches]_vars

\* C5 (anchor cleared on leaving Swapping): once the effects of a transition
\* have run (before any later tick), a status other than Swapping has no anchor.
C5_AnchorOnlyWhileSwapping ==
  (~Dirty /\ cameraStatus # SWAPPING) => swappedFrame = NoFrame

\* Swapping was left while a request carrying an anchor was outstanding, and
\* the anchor is gone
C5_Witness ==
  /\ ~Dirty
  /\ cameraStatus # SWAPPING
  /\ swappedFrame = NoFrame
  /\ Len(inflight) = 1
  /\ inflight[1].anchor # NoFrame

\* C6 (selection stays in the store): the active identity id is empty or the
\* id of an identity of the store.
C6_ActiveInStore ==
  activeIdentityId = 0 \/ activeIdentityId \in Ids(identities)

\* the active identity 1 has just been deleted (the pre-process effect has not
\* yet run for the new render) and the selection is empty
C6_Witness ==
  /\ depUrl = RemoteUrl(1)
  /\ 1 \notin Ids(identities)
  /\ activeIdentityId = 0

\* C7 (anchor threading): a successful response becomes the anchor, nothing
\* else installs an anchor, and every request is sent with the anchor of the
\* moment it is sent (none when there is none).
C7_AnchorThreading ==
  [][/\ \A k \in 1..Len(inflight) :
          SwapSuccess(k) => swappedFrame' = ResultOf(inflight[k])
     /\ (\A k \in 1..Len(inflight) : ~SwapSuccess(k))
          => swappedFrame' \in {swappedFrame, NoFrame}
     /\ Dispatches => Last(inflight').anchor = swappedFrame]_vars

\* a request is outstanding that carries the current anchor
C7_Witness ==
  /\ Len(inflight) = 1
  /\ swappedFrame # NoFrame
  /\ inflight[1].anchor = swappedFrame

\* C8 (failure keeps the anchor): a failed request leaves the anchor as it
\* was, clears Busy and leaves the outstanding set; the request sent by its
\* effects carries that same anchor.
C8_FailureKeepsAnchor ==
  [][/\ \A k \in 1..Len(inflight) :
          SwapFailure(k) => /\ swappedFrame' = swappedFrame
                            /\ ~isProcessing'
                            /\ Len(inflight') = Len(inflight) - 1
     /\ (lastEvent = "swapFail" /\ Dispatches)
          => /\ Last(inflight').anchor = swappedFrame
             /\ swappedFrame' = swappedFrame]_vars

\* after a failure with an anchor present the next request has been sent with
\* that anchor
C8_Witness ==
  /\ lastEvent = "swapFail"
  /\ swappedFrame # NoFrame
  /\ Len(inflight) = 1
  /\ inflight[1].anchor = swappedFrame

\* C9 (refinement failure marks Error): when refineIdentity failed, the
\* uploaded identity, if still in the store, has embeddingStatus error.
C9_RefineFailureMarksError ==
  [][RefineFailure
       => \A k \in 1..Len(identities') :
            identities'[k].id = upload.id
              => identities'[k].embeddingStatus = "error"]_vars

\* C10 (capture released when Inactive): with the status Inactive, its effects
\* run and no acquisition pending, no capture stream is live.
C10_ReleasedWhenInactive ==
  (cameraStatus = INACTIVE /\ ~Dirty /\ acquiring = 0) => tracks = {}

\* C11 (capture error on power-on): when getUserMedia is rejected the session is
\* back in Inactive.
C11_CaptureErrorBackToInactive ==
  [][AcquireFailure => cameraStatus' = INACTIVE]_vars

\* C12 (Swapping needs an active identity): once the effects have run, a session
\* in Swapping has an active identity.
C12_SwappingHasActiveIdentity ==
  (~Dirty /\ cameraStatus = SWAPPING) => activeIdentityId # 0

EntersSwapping == cameraStatus # SWAPPING /\ cameraStatus' = SWAPPING

C14_LateMarkReadyNoOp ==
  [][((RefineSuccess \/ RefineFailure) /\ upload.id \notin Ids(identities))
       => identities' = identities /\ activeIdentityId' = activeIdentityId]_vars

\* the uploaded identity removed while its refinement is in flight, with another
\* identity selected
C14_Witness ==
  /\ upload.phase = "refining" /\ upload.id \notin Ids(identities)
  /\ activeIdentityId # 0 /\ Len(identities) >= 1

LoopOn == cameraStatus = SWAPPING /\ identityBase64 # NoImage

\* C15 (the loop survives failures): whenever the session is Swapping with a
\* resolved target and no request outstanding, as it is after a failed request
\* and after a frame that could not be encoded, a request is eventually
\* dispatched unless the session leaves Swapping or loses its target.
C15_LoopSurvivesFailure ==
  (LoopOn /\ Len(inflight) = 0) ~> (Len(inflight) > 0 \/ ~LoopOn)

\* a request sent after a failed one, the session still Swapping
C15_Witness ==
  /\ lastEvent = "swapFail" /\ LoopOn /\ Len(inflight) = 1 /\ ~inflight[1].stale

\* C16 (tick timer): once the effects of a step have run, the interval is armed
\* only in a session that is Swapping with a resolved target, so every tick
\* fires in such a session.
C16_TimerOnlyWhileSwapping ==
  (~Dirty /\ interval) => LoopOn

\* Swapping left for Active while a request sent by the armed loop is still
\* outstanding: the interval is cleared
C16_Witness ==
  /\ ~Dirty /\ ~interval /\ cameraStatus = ACTIVE
  /\ Len(inflight) = 1 /\ inflight[1].stale

\* C17 (power-on passes through Loading): every step out of Inactive enters
\* Loading, and every step into Active from outside Swapping starts in Loading
\* with the stream acquired.
C17_PowerOnThroughLoading ==
  [][/\ (cameraStatus = INACTIVE /\ cameraStatus' # INACTIVE)
          => cameraStatus' = LOADING
     /\ (cameraStatus \notin {ACTIVE, SWAPPING} /\ cameraStatus' = ACTIVE)
          => (cameraStatus = LOADING /\ stream' # 0)]_vars

\* id, name and image of an entry of the library
Core(x) == [id |-> x.id, name |-> x.name, imageUrl |-> x.imageUrl]

\* the entry of list s with the given id
Entry(s, id) == s[CHOOSE k \in 1..Len(s) : s[k].id = id]

\* C18 (identities are immutable but for their status): in every step an entry
\* that stays in the library keeps its id, name and image; its embeddingStatus
\* changes only when the refinement of that very entry settles; selecting
\* leaves the library as it is; deleting removes the entry with the given id
\* and nothing else.
C18_IdentityFrame ==
  [][/\ \A id \in Ids(identities) \cap Ids(identities') :
          /\ Core(Entry(identities', id)) = Core(Entry(identities, id))
          /\ Entry(identities', id) # Entry(identities, id)
               => (RefineSuccess \/ RefineFailure) /\ upload.id = id
     /\ \A id \in Ids(identities) :
          /\ HandleIdentitySelect(id) => identities' = identities
          /\ DeleteIdentity(id)
               => /\ Ids(identities') = Ids(identities) \ {id}
                  /\ Len(identities') = Len(identities) - 1]_vars

\* the uploaded identity marked ready and selected after a built-in one was
\* deleted
C18_Witness ==
  /\ 3 \in Ids(identities) /\ Entry(identities, 3).embeddingStatus = "ready"
  /\ activeIdentityId = 3 /\ Len(identities) = 2

\* C19 (framing of a request): the parts of every outstanding request are the
\* source frame, the target, the anchor exactly when one was passed, and then
\* one text part, the only one; the text mentions the consistency reference
\* exactly when the anchor part is there.
C19_PartsFraming ==
  \A k \in 1..Len(inflight) :
    LET r == inflight[k]
        p == r.parts
        n == Len(p)
        withAnchor == r.anchor # NoFrame
    IN /\ n = IF withAnchor THEN 4 ELSE 3
       /\ p[1] = InlinePart(CleanSource(r.source))
       /\ p[2] = InlinePart(CleanImage(r.target))
       /\ withAnchor => p[3] = InlinePart(CleanFrame(r.anchor))
       /\ \A j \in 1..n : (p[j].type = "text") <=> (j = n)
       /\ p[n].reference <=> withAnchor

\* a request of four parts outstanding: its anchor is the frame on display
C19_Witness ==
  /\ Len(inflight) = 1 /\ Len(inflight[1].parts) = 4
  /\ inflight[1].parts[3].data.frame = swappedFrame.id
  /\ inflight[1].parts[4].reference

\* C20 (target payload is inline): a resolved target payload is inline-encoded,
\* never a remote reference, and urlToBase64 of an image that is already a
\* data: URL is that URL itself.
C20_TargetPayloadInline ==
  /\ identityBase64 # NoImage => IsInline(identityBase64)
  /\ IsInline(Url) => UrlToBase64(Url) = {Url}

\* C21 (target belongs to the active identity): the target of every request
\* sent is the payload of the identity active at that moment, and with no
\* identity active, no image load pending and the effects run, there is no
\* target payload.
C21_TargetOfActiveIdentity ==
  [][/\ Dispatches
          => (activeIdentityId # 0 /\ Last(inflight').target.img = Url.img)
     /\ (activeIdentityId = 0 /\ ~Dirty /\ \A i \in RemoteImgs : loading[i] = 0)
          => identityBase64 = NoImage]_vars

\* C22 (one live stream): at most one capture stream has live tracks, and a
\* step between Active and Swapping requests no further stream.
C22_SingleLiveStream ==
  [][/\ Cardinality(tracks') <= 1
     /\ (cameraStatus = SWAPPING /\ depStatus = ACTIVE) \/
        (cameraStatus = ACTIVE /\ depStatus = SWAPPING)
          => acquiring' = acquiring]_vars

\* C23 (no request without a frame): the source of every request sent is a
\* frame of an acquired, live capture stream, never the image of an empty
\* video surface.
C23_SourceIsCapturedFrame ==
  \A k \in 1..Len(inflight) : inflight[k].source = "frame"

\* C24 (way back from Swapping): while the status is Swapping the persona
\* button is enabled.
C24_ToggleEnabledWhileSwapping ==
  cameraStatus = SWAPPING => ~SwapDisabled

====
